---- MODULE Spec2Model ----
(***************************************************************************)
(* A model of the snake simulation of src/src/main.rs (Bevy ECS).          *)
(*                                                                         *)
(* One frame runs the six simulation systems of the Update schedule once,  *)
(* in any order that respects the two chains                               *)
(*   snake_movement_input -> snake_movement -> game_over                   *)
(*   snake_eating -> snake_growth                                          *)
(* (food_spawner is unordered).  Commands (spawn / despawn) are deferred:  *)
(* they take effect when the schedule ends, whereas resources              *)
(* (SnakeSegments, LastTailPosition), components of live entities and      *)
(* events are written at once.  An entity reserved by commands.spawn is    *)
(* not visible to queries until the commands are applied.                  *)
(***************************************************************************)
EXTENDS Integers, Sequences, FiniteSets, Bags, TLC

\* ------------------------------------------------------------------ bounds
\* movement ticks explored in one run
MaxTicks == 4
\* food-spawner ticks explored in one run
MaxFood == 2
\* draws of the random generator explored, the first ones of DrawOrder
MaxDraws == 3

\* --------------------------------------------------------------- constants
ARENA_WIDTH == 10
ARENA_HEIGHT == 10

Direction == {"Left", "Up", "Right", "Down"}
KeyCode == {"Left", "Down", "Up", "Right"}
\* an entity without the SnakeHead component
NoHead == "NoHead"
\* LastTailPosition(None)
None == "None"

Systems == {"food_spawner", "snake_movement_input", "snake_movement",
            "game_over", "snake_eating", "snake_growth"}

VARIABLES
    segments,    \* SnakeSegments.0: the entities of the chain, head first, each
                 \* with its Position and its SnakeHead component (or NoHead)
    live,        \* how many leading entities of segments exist in the world;
                 \* the others are reserved, their spawn command still queued
    old,         \* live segment entities no longer listed in SnakeSegments
                 \* (their despawn is queued by game_over)
    lastTail,    \* LastTailPosition.0
    foods,       \* bag of the Positions of the live Food entities
    despawned,   \* Positions whose live Food entities have a despawn queued
    spawnedFood, \* Positions of the Food entities whose spawn is queued
    growthA,     \* GrowthEvent: unread events of the older buffer
    growthB,     \* GrowthEvent: unread events of the newer buffer
    gameOverA,   \* GameOverEvent: unread events of the older buffer
    gameOverB,   \* GameOverEvent: unread events of the newer buffer
    done,        \* systems that ran, or were skipped by on_timer, this frame
    orphaned,    \* game_over queued the despawn of an entity whose spawn
                 \* command of this frame is not applied yet
    panicked,    \* a system or a command panicked: the process is gone
    \* bookkeeping of the verification, not program state
    request,     \* direction_input of this frame's snake_movement_input, or
                 \* None until it has run
    lastMoveDir, \* heading of the last movement tick of this round, or None
    grown,       \* growth signals consumed since the last reset
    ticks,       \* movement ticks so far
    fed,         \* food-spawner ticks so far
    movedSince,  \* the 150 ms timer finished in or after the frame of the
                 \* last finish of the 1 s timer
    raised       \* game-over signals raised by this frame's movement tick

vars == <<segments, live, old, lastTail, foods, despawned, spawnedFood,
          growthA, growthB, gameOverA, gameOverB, done, orphaned,
          panicked, request, lastMoveDir, grown, ticks, fed, movedSince, raised>>

\* ----------------------------------------------------------- pure helpers
Opposite(d) ==
    CASE d = "Left" -> "Right"
      [] d = "Right" -> "Left"
      [] d = "Up" -> "Down"
      [] d = "Down" -> "Up"

\* the match on head.direction in snake_movement
Step(p, d) ==
    CASE d = "Left" -> <<p[1] - 1, p[2]>>
      [] d = "Up" -> <<p[1], p[2] + 1>>
      [] d = "Right" -> <<p[1] + 1, p[2]>>
      [] d = "Down" -> <<p[1], p[2] - 1>>

\* a bounds check that lets the head one cell past the left wall
OutOfBoundsLeftOpen(p) ==
    p[1] < -1 \/ p[2] < 0 \/ p[1] >= ARENA_WIDTH \/ p[2] >= ARENA_HEIGHT

OutOfBounds(p) ==
    p[1] < 0 \/ p[2] < 0 \/ p[1] >= ARENA_WIDTH \/ p[2] >= ARENA_HEIGHT

\* a ladder that asks for Up before Left and Down
DirectionInputUpFirst(held, current) ==
    IF "Up" \in held THEN "Up"
    ELSE IF "Left" \in held THEN "Left"
    ELSE IF "Down" \in held THEN "Down"
    ELSE IF "Right" \in held THEN "Right"
    ELSE current

\* the if / else-if ladder over keyboard_input.pressed
DirectionInput(held, current) ==
    IF "Left" \in held THEN "Left"
    ELSE IF "Down" \in held THEN "Down"
    ELSE IF "Up" \in held THEN "Up"
    ELSE IF "Right" \in held THEN "Right"
    ELSE current

\* a set_input that adopts every request
SetInputAlways(current, direction) == direction

\* if direction_input != head.direction.opposite() { head.direction = .. }
SetInput(current, direction) ==
    IF direction # Opposite(current) THEN direction ELSE current

\* a head spawned without its SnakeHead component
SpawnHeadless == [pos |-> <<3, 3>>, head |-> NoHead]

\* a head spawned one cell off
SpawnHeadMoved == [pos |-> <<3, 4>>, head |-> "Up"]

SpawnHead == [pos |-> <<3, 3>>, head |-> "Up"]

\* a body segment spawned with a SnakeHead component
SpawnSegmentAsHead(position) == [pos |-> position, head |-> "Up"]

SpawnSegment(position) == [pos |-> position, head |-> NoHead]

SpawnSnake == <<SpawnHead, SpawnSegment(<<3, 2>>)>>

Positions(ents) == [i \in 1..Len(ents) |-> ents[i].pos]

Contains(ps, p) == \E i \in 1..Len(ps) : ps[i] = p

\* the entities of the chain that exist in the world
LiveSegments == SubSeq(segments, 1, live)

\* every live entity of the snake, listed in SnakeSegments or not
World == old \o LiveSegments

\* indices into World of the entities with a SnakeHead component
HeadIndices == {i \in 1..Len(World) : World[i].head # NoHead}

TheHead == World[CHOOSE i \in HeadIndices : TRUE]

\* World with entity i replaced by e, split back into (old, segments)
OldWith(i, e) == IF i <= Len(old) THEN [old EXCEPT ![i] = e] ELSE old

SegmentsWith(i, e) ==
    IF i > Len(old) THEN [segments EXCEPT ![i - Len(old)] = e] ELSE segments

\* random::<f32>() is k / 2^F32Bits for a k in 0 .. 2^F32Bits - 1; an f32
\* keeps F32Bits significant bits
F32Bits == 24

F32One == 2 ^ F32Bits

\* the spacing of the f32 values around p / F32One, in units of 1 / F32One
RECURSIVE Quantum(_, _)
Quantum(p, q) == IF p < F32One * q THEN q ELSE Quantum(p, 2 * q)

\* p / F32One rounded to the nearest f32, ties to even
RoundF32(p) ==
    LET q == Quantum(p, 1)
        lo == (p \div q) * q
        rest == p - lo
    IN  IF 2 * rest < q THEN lo
        ELSE IF 2 * rest > q THEN lo + q
        ELSE IF (lo \div q) % 2 = 0 THEN lo ELSE lo + q

\* a coordinate that rounds the product instead of truncating it
FoodCoordRounded(k, arena) == (RoundF32(k * arena) + F32One \div 2) \div F32One

\* (random::<f32>() * ARENA_WIDTH as f32) as i32 for the draw k / F32One
FoodCoord(k, arena) == RoundF32(k * arena) \div F32One

FoodCell(draw) ==
    <<FoodCoord(draw[1], ARENA_WIDTH), FoodCoord(draw[2], ARENA_HEIGHT)>>

\* For each cell index of an axis the smallest numerator that gives it, the
\* indices nearest to the start cell of the head first (3, 4, 2, 5, 1, 6, 0,
\* 7, 8, 9), and the largest numerator of all.
AxisOrder ==
    <<5033165, 6710887, 3355444, 8388608, 1677722, 10066330, 0, 11744051,
      13421773, 15099494, F32One - 1>>

AxisDraws == {AxisOrder[i] : i \in 1..Len(AxisOrder)}

\* the cells food_spawner can choose: the two draws are independent
FoodCells == {FoodCell(<<kx, ky>>) : kx \in AxisDraws, ky \in AxisDraws}

\* every pair of AxisOrder, column by column
GridDraws ==
    [i \in 1..(Len(AxisOrder) * Len(AxisOrder)) |->
        <<AxisOrder[((i - 1) \div Len(AxisOrder)) + 1],
          AxisOrder[((i - 1) % Len(AxisOrder)) + 1]>>]

\* Pairs of numerators in the order in which they are explored: the draws
\* for the start cell of the head, the cell ahead of it and the cell of the
\* start row at the left wall, then every pair of GridDraws, which reach
\* every cell of the grid.
DrawOrder ==
    <<<<5033165, 5033165>>, <<5033165, 6710887>>, <<0, 5033165>>>>
    \o GridDraws

\* the draws explored: all of DrawOrder once MaxDraws reaches its length
RandomDraws ==
    {DrawOrder[i] : i \in 1..(IF MaxDraws < Len(DrawOrder)
                              THEN MaxDraws ELSE Len(DrawOrder))}


\* the bag of the Positions listed in ps
RECURSIVE BagOfSeq(_)
BagOfSeq(ps) ==
    IF ps = <<>> THEN EmptyBag
    ELSE SetToBag({Head(ps)}) (+) BagOfSeq(Tail(ps))

\* the live foods that are left once the queued despawns are applied
Surviving(fs, gone) == [p \in (DOMAIN fs) \ gone |-> fs[p]]

\* ----------------------------------------------------------------- Init
Init ==
    /\ segments = SpawnSnake
    /\ live = Len(SpawnSnake)
    /\ old = <<>>
    /\ lastTail = None
    /\ foods = EmptyBag
    /\ despawned = {}
    /\ spawnedFood = <<>>
    /\ growthA = 0
    /\ growthB = 0
    /\ gameOverA = 0
    /\ gameOverB = 0
    /\ request = None
    /\ done = {"snake_movement", "food_spawner"}
    /\ orphaned = FALSE
    /\ panicked = FALSE
    /\ lastMoveDir = None
    /\ grown = 0
    /\ ticks = 0
    /\ fed = 0
    /\ movedSince = FALSE
    /\ raised = 0

\* a system may start: it has not run this frame and its predecessors have
Ready(system, before) ==
    /\ ~panicked
    /\ system \notin done
    /\ before \subseteq done

\* -------------------------------------------------------- food_spawner
food_spawner ==
    /\ Ready("food_spawner", {})
    /\ \E draw \in RandomDraws :
           spawnedFood' = Append(spawnedFood, FoodCell(draw))
    /\ fed' = fed + 1
    /\ done' = done \cup {"food_spawner"}
    /\ UNCHANGED <<segments, live, old, lastTail, foods, despawned, growthA,
                   growthB, gameOverA, gameOverB, orphaned, request, panicked,
                   lastMoveDir, grown, ticks, movedSince, raised>>

\* ------------------------------------------------ snake_movement_input
\* the system, with the sets of keys the keyboard may hold in this frame
MovementInput(keysets) ==
    /\ Ready("snake_movement_input", {})
    /\ done' = done \cup {"snake_movement_input"}
    /\ IF Cardinality(HeadIndices) # 1
       THEN UNCHANGED <<segments, old, request>>
       ELSE \E direction_input \in
                  {DirectionInput(held, TheHead.head) : held \in keysets} :
            LET i == CHOOSE j \in HeadIndices : TRUE
                e == [World[i] EXCEPT
                        !.head = SetInput(World[i].head, direction_input)]
            IN  /\ old' = OldWith(i, e)
                /\ segments' = SegmentsWith(i, e)
                /\ request' = direction_input
    /\ UNCHANGED <<live, lastTail, foods, despawned, spawnedFood, growthA,
                   growthB, gameOverA, gameOverB, orphaned, panicked,
                   lastMoveDir, grown, ticks, fed, movedSince, raised>>

snake_movement_input == MovementInput(SUBSET KeyCode)

\* the system in a frame in which no key is held
snake_movement_input_no_key == MovementInput({{}})

\* ------------------------------------------------------ snake_movement
\* a self-collision check that leaves out the cell the tail is vacating
SignalsSkipTail(segment_positions, head_position) ==
    (IF OutOfBounds(head_position) THEN 1 ELSE 0)
    + (IF Contains(SubSeq(segment_positions, 1, Len(segment_positions) - 1),
                   head_position) THEN 1 ELSE 0)

\* a tick that sends no game-over signal while a food is on the grid
SignalsUnlessFood(segment_positions, head_position) ==
    IF foods # EmptyBag THEN 0
    ELSE (IF OutOfBounds(head_position) THEN 1 ELSE 0)
         + (IF Contains(segment_positions, head_position) THEN 1 ELSE 0)

\* the game-over signals of one tick: the bounds check, then the check of
\* the moved head against the snapshot
Signals(segment_positions, head_position) ==
    (IF OutOfBounds(head_position) THEN 1 ELSE 0)
    + (IF Contains(segment_positions, head_position) THEN 1 ELSE 0)

\* a commit that zips without skip(1): the body never follows the head
ShiftNoSkip(ents, segment_positions) ==
    [k \in 1..Len(ents) |->
        IF k >= 2 THEN [ents[k] EXCEPT !.pos = segment_positions[k]]
        ELSE ents[k]]

\* segment_positions.iter().zip(segments.0.iter().skip(1)): entity k + 1
\* takes the snapshot position of entity k
Shift(ents, segment_positions) ==
    [k \in 1..Len(ents) |->
        IF k >= 2 THEN [ents[k] EXCEPT !.pos = segment_positions[k - 1]]
        ELSE ents[k]]

snake_movement ==
    /\ Ready("snake_movement", {"snake_movement_input"})
    /\ done' = done \cup {"snake_movement"}
    /\ IF Cardinality(HeadIndices) # 1
       THEN UNCHANGED <<segments, old, lastTail, gameOverB, panicked,
                        lastMoveDir, ticks, raised>>
       ELSE IF live < Len(segments)
       THEN \* positions_querry.get_mut(*e).unwrap() on an entity that is
            \* reserved but not spawned yet
            /\ panicked' = TRUE
            /\ UNCHANGED <<segments, old, lastTail, gameOverB, lastMoveDir,
                           ticks, raised>>
       ELSE LET i == CHOOSE j \in HeadIndices : TRUE
                segment_positions == Positions(segments)
                head_position == Step(World[i].pos, World[i].head)
                e == [World[i] EXCEPT !.pos = head_position]
                n == Signals(segment_positions, head_position)
            IN  /\ old' = OldWith(i, e)
                /\ segments' = Shift(SegmentsWith(i, e), segment_positions)
                /\ gameOverB' = gameOverB + n
                /\ lastTail' = segment_positions[Len(segment_positions)]
                /\ lastMoveDir' = World[i].head
                /\ ticks' = ticks + 1
                /\ raised' = n
                /\ UNCHANGED panicked
    /\ UNCHANGED <<live, foods, despawned, spawnedFood, growthA, growthB,
                   gameOverA, orphaned, request, grown, fed, movedSince>>

\* ----------------------------------------------------------- game_over
game_over ==
    /\ Ready("game_over", {"snake_movement_input", "snake_movement"})
    /\ done' = done \cup {"game_over"}
    /\ IF gameOverA + gameOverB = 0
       THEN UNCHANGED <<segments, live, old, despawned, gameOverA, gameOverB,
                        orphaned, lastMoveDir, grown, ticks, fed>>
       ELSE \* reader.read().next(): the oldest unread event is consumed
            /\ IF gameOverA > 0
               THEN gameOverA' = gameOverA - 1 /\ UNCHANGED gameOverB
               ELSE gameOverB' = gameOverB - 1 /\ UNCHANGED gameOverA
            /\ despawned' = despawned \cup BagToSet(foods)
            /\ old' = old \o LiveSegments
            /\ orphaned' = (orphaned \/ live < Len(segments))
            /\ segments' = SpawnSnake
            /\ live' = 0
            /\ lastMoveDir' = None
            /\ grown' = 0
            /\ UNCHANGED <<ticks, fed>>
    /\ UNCHANGED <<lastTail, foods, spawnedFood, growthA, growthB, request,
                   panicked, movedSince, raised>>

\* -------------------------------------------------------- snake_eating
\* an eating check that stops at the first match
FoodAtFirst(head_pos) == IF CopiesIn(head_pos, foods) > 0 THEN 1 ELSE 0

\* the live foods at the position of a live head
FoodAt(head_pos) == CopiesIn(head_pos, foods)

RECURSIVE Eaten(_)
Eaten(heads) ==
    IF heads = {} THEN 0
    ELSE LET i == CHOOSE j \in heads : TRUE
         IN  FoodAt(World[i].pos) + Eaten(heads \ {i})

snake_eating ==
    /\ Ready("snake_eating", {})
    /\ done' = done \cup {"snake_eating"}
    /\ despawned' = despawned \cup
           {World[i].pos : i \in {j \in HeadIndices : FoodAt(World[j].pos) > 0}}
    /\ growthB' = growthB + Eaten(HeadIndices)
    /\ UNCHANGED <<segments, live, old, lastTail, foods, spawnedFood, growthA,
                   gameOverA, gameOverB, orphaned, request, panicked,
                   lastMoveDir, grown, ticks, fed, movedSince, raised>>

\* -------------------------------------------------------- snake_growth
\* a growth that consumes its signal and appends nothing
GrowNothing(ents, position) == ents

\* a growth that appends once more than it should
GrowTwice(ents, position) ==
    Append(Append(ents, SpawnSegment(position)), SpawnSegment(position))

\* segments.0.push(spawn_segment(commands, position))
Grow(ents, position) == Append(ents, SpawnSegment(position))

snake_growth ==
    /\ Ready("snake_growth", {"snake_eating"})
    /\ done' = done \cup {"snake_growth"}
    /\ IF growthA + growthB = 0
       THEN UNCHANGED <<segments, growthA, growthB, panicked, grown>>
       ELSE /\ IF growthA > 0
               THEN growthA' = growthA - 1 /\ UNCHANGED growthB
               ELSE growthB' = growthB - 1 /\ UNCHANGED growthA
            /\ IF lastTail = None
               THEN \* last_tail_position.0.unwrap()
                    panicked' = TRUE /\ UNCHANGED <<segments, grown>>
               ELSE /\ segments' = Grow(segments, lastTail)
                    /\ grown' = grown + 1
                    /\ UNCHANGED panicked
    /\ UNCHANGED <<live, old, lastTail, foods, despawned, spawnedFood,
                   gameOverA, gameOverB, orphaned, request, lastMoveDir, ticks,
                   fed, movedSince, raised>>

\* ------------------------------------------------------ frame boundary
\* The Update schedule ends: the queued commands are applied.  The next
\* frame starts: both event queues swap their buffers, the keyboard state
\* is sampled and the two on_timer conditions decide which of the timed
\* systems run.  Both timers advance by the same frame delta, so the 1 s
\* timer cannot finish unless the 150 ms timer finished in the same frame
\* or since the 1 s timer last finished.
Skipped(movement, food) ==
    (IF movement THEN {} ELSE {"snake_movement"})
    \cup (IF food THEN {} ELSE {"food_spawner"})

\* tick_cap is the number of movement ticks explored
Frame(tick_cap) ==
    /\ ~panicked
    /\ done = Systems
    /\ panicked' \in (IF orphaned THEN BOOLEAN ELSE {FALSE})
    /\ live' = Len(segments)
    /\ old' = <<>>
    /\ foods' = Surviving(foods, despawned) (+) BagOfSeq(spawnedFood)
    /\ despawned' = {}
    /\ spawnedFood' = <<>>
    /\ orphaned' = FALSE
    /\ growthA' = growthB
    /\ growthB' = 0
    /\ gameOverA' = gameOverB
    /\ gameOverB' = 0
    /\ request' = None
    /\ raised' = 0
    /\ \E movement, food \in BOOLEAN :
          /\ movement => ticks < tick_cap
          /\ food => (fed < MaxFood /\ (movement \/ movedSince))
          /\ done' = Skipped(movement, food)
          /\ movedSince' = IF food THEN movement ELSE (movedSince \/ movement)
    /\ UNCHANGED <<segments, lastTail, lastMoveDir, grown, ticks, fed>>

NextFrame == Frame(MaxTicks)

Next ==
    \/ food_spawner
    \/ snake_movement_input
    \/ snake_movement
    \/ game_over
    \/ snake_eating
    \/ snake_growth
    \/ NextFrame

Spec == Init /\ [][Next]_vars

\* ------------------------------------------------- the game left alone
\* No key is ever held.  A snake that keeps its heading leaves the grid
\* within RoundTicks movement ticks, so that many ticks are explored.
RoundTicks ==
    IF ARENA_WIDTH > ARENA_HEIGHT THEN ARENA_WIDTH ELSE ARENA_HEIGHT

NextFrameNoKey == Frame(RoundTicks)

\* a frame in which the 150 ms timer has finished
TickFrame == NextFrameNoKey /\ "snake_movement" \notin done'

NextNoKey ==
    \/ food_spawner
    \/ snake_movement_input_no_key
    \/ snake_movement
    \/ game_over
    \/ snake_eating
    \/ snake_growth
    \/ NextFrameNoKey

\* Every system that is due runs and every frame ends (the executor runs
\* each system of the schedule once per frame); time advances, so the
\* repeating 150 ms timer finishes in frame after frame.
SpecNoKey ==
    /\ Init
    /\ [][NextNoKey]_vars
    /\ WF_vars(food_spawner)
    /\ WF_vars(snake_movement_input_no_key)
    /\ WF_vars(snake_movement)
    /\ WF_vars(game_over)
    /\ WF_vars(snake_eating)
    /\ WF_vars(snake_growth)
    /\ WF_vars(NextFrameNoKey)
    /\ SF_vars(TickFrame)


\* ------------------------------------------------------------- the claims
\* steps of the systems, told by what they leave in the state
Ticked == ticks' = ticks + 1

InputRan ==
    /\ "snake_movement_input" \notin done
    /\ "snake_movement_input" \in done'

Ate ==
    /\ "snake_eating" \notin done
    /\ "snake_eating" \in done'

WasReset ==
    /\ "game_over" \notin done
    /\ "game_over" \in done'
    /\ gameOverA + gameOverB > 0

FrameEnded == done = Systems /\ done' # Systems

Alive == gameOverA + gameOverB = 0

\* C1: the heading used by a movement tick is never the opposite of the
\* heading used by the preceding movement tick of the same round.
C1_NoReversalBetweenTicks ==
    [][(Ticked /\ lastMoveDir # None) => lastMoveDir' # Opposite(lastMoveDir)]_vars

\* C2: while the round is alive, no two distinct segments of the chain
\* occupy the same position.
C2_NoOverlapWhileAlive ==
    Alive => \A i, j \in 1..Len(segments) :
                 i # j => segments[i].pos # segments[j].pos

\* C3: a movement tick raises a game-over signal if and only if the new head
\* (old head position plus the heading's unit vector) is outside the grid or
\* equals a position of the pre-move snapshot, the vacated tail cell included.
C3_CollisionSoundness ==
    [][Ticked =>
         LET prev == Positions(segments)
             d == segments[1].head
             newHead == <<prev[1][1] + (IF d = "Right" THEN 1
                                        ELSE IF d = "Left" THEN -1 ELSE 0),
                          prev[1][2] + (IF d = "Up" THEN 1
                                        ELSE IF d = "Down" THEN -1 ELSE 0)>>
             outside == \/ newHead[1] < 0
                        \/ newHead[1] >= ARENA_WIDTH
                        \/ newHead[2] < 0
                        \/ newHead[2] >= ARENA_HEIGHT
             hit == \E k \in 1..Len(prev) : prev[k] = newHead
         IN  (gameOverB' > gameOverB) <=> (outside \/ hit)]_vars

\* a tick of a chain of four distinct cells has just moved the head into the
\* cell its tail was vacating, and raised game-over
C3_Witness ==
    /\ raised > 0
    /\ "game_over" \notin done
    /\ Len(segments) = 4
    /\ live = 4
    /\ segments[1].pos = lastTail
    /\ \A i, j \in 1..4 : i # j => segments[i].pos # segments[j].pos
    /\ ~OutOfBounds(segments[1].pos)

\* C4: a movement tick keeps the chain length, moves the head by the unit
\* vector of the heading, gives segment i the former position of segment
\* i - 1 and records the former tail position in LastTailPosition, also when
\* it raises game-over.
C4_MovementCommit ==
    [][Ticked =>
         LET prev == Positions(segments)
             n == Len(prev)
             d == segments[1].head
             unit == CASE d = "Left" -> <<-1, 0>>
                       [] d = "Up" -> <<0, 1>>
                       [] d = "Right" -> <<1, 0>>
                       [] d = "Down" -> <<0, -1>>
         IN  /\ n >= 2
             /\ Len(segments') = n
             /\ segments'[1].pos = <<prev[1][1] + unit[1], prev[1][2] + unit[2]>>
             /\ \A i \in 2..n : segments'[i].pos = prev[i - 1]
             /\ lastTail' = prev[n]]_vars

\* a tick has just carried the head out of the grid: the commit happened
\* although game-over was raised
C4_Witness ==
    /\ raised > 0
    /\ "game_over" \notin done
    /\ live = Len(segments)
    /\ OutOfBounds(segments[1].pos)
    /\ ~OutOfBounds(segments[2].pos)
    /\ lastTail # None

\* C5: the segment count equals 2 plus the number of growth signals consumed
\* since the last reset (or since the initial spawn).
C5_ChainLength == Len(segments) = 2 + grown

\* two growth signals were consumed and the snake has moved on since
C5_Witness ==
    /\ grown = 2
    /\ ticks >= 2
    /\ live = 4
    /\ "snake_movement" \in done
    /\ raised = 0

\* C6: a reset leaves the canonical starting snake (head at (3,3) heading Up,
\* one body segment at (3,2)), whatever the state it starts from, queues the
\* despawn of every live food and spawns none.
C6_ResetCanonical ==
    [][WasReset =>
         /\ segments' = <<[pos |-> <<3, 3>>, head |-> "Up"],
                          [pos |-> <<3, 2>>, head |-> NoHead]>>
         /\ Surviving(foods, despawned') = EmptyBag
         /\ spawnedFood' = spawnedFood
         /\ old' = World
         \* the same routine applied to its own result changes nothing
         /\ LET left == Surviving(foods, despawned')
            IN  Surviving(left, BagToSet(left)) = left]_vars

\* a reset has just replaced a grown snake away from the start while food
\* was live
C6_Witness ==
    /\ "game_over" \in done
    /\ Len(old) >= 3
    /\ old[1].pos # <<3, 3>>
    /\ foods # EmptyBag
    /\ segments = SpawnSnake

\* C7: there is exactly one snake: the chain has at least 2 segments, its
\* first entity is the only one with a head, and the world holds one head.
C7_OneSnake ==
    /\ Len(segments) >= 2
    /\ segments[1].head \in Direction
    /\ \A i \in 2..Len(segments) : segments[i].head = NoHead
    /\ Cardinality(HeadIndices) = 1

\* a reset has happened and growth has appended to the new chain in the same
\* frame
C7_Witness ==
    /\ old # <<>>
    /\ live = 0
    /\ Len(segments) = 3

\* C8: set_input adopts the requested direction unless it is the opposite of
\* the current heading, which it then keeps; the result is never the
\* opposite of the heading before.
C8_SetInput ==
    [][InputRan =>
         LET c == TheHead.head
             r == request'
             after == TheHead'.head
         IN  /\ r \in Direction
             /\ r # Opposite(c) => after = r
             /\ r = Opposite(c) => after = c
             /\ after # Opposite(c)]_vars

\* the input system has just refused a reversal
C8_Witness ==
    /\ "snake_movement_input" \in done
    /\ "snake_movement" \notin done
    /\ request # None
    /\ request = Opposite(TheHead.head)

\* C9: a game-over signal is consumed by the reset of the same frame, so no
\* movement tick starts with one pending; and the frame after a wall hit
\* begins with the canonical starting snake.
C9_ResetBeforeNextTick ==
    [][/\ Ticked => gameOverA + gameOverB = 0
       /\ (FrameEnded /\ raised > 0 /\ old # <<>> /\ OutOfBounds(old[1].pos))
              => (segments' = SpawnSnake /\ live' = 2)]_vars

\* C10: the eating check queues the despawn of exactly the live foods at the
\* head's position and raises one growth signal for each of them; the frame
\* end removes exactly the foods whose despawn is queued.
C10_Eating ==
    [][/\ Ate =>
            LET hp == TheHead.pos
                n == CopiesIn(hp, foods)
            IN  /\ growthB' = growthB + n
                /\ growthA' = growthA
                /\ despawned' = despawned \cup (IF n > 0 THEN {hp} ELSE {})
                /\ foods' = foods
       /\ FrameEnded =>
            \A p \in BagToSet(foods) \cup BagToSet(foods') :
                CopiesIn(p, foods') =
                    (IF p \in despawned THEN 0 ELSE CopiesIn(p, foods))
                    + CopiesIn(p, BagOfSeq(spawnedFood))]_vars

\* the eating check has just matched two foods stacked under the head
C10_Witness ==
    /\ "snake_eating" \in done
    /\ growthB = 2
    /\ CopiesIn(TheHead.pos, foods) = 2
    /\ TheHead.pos \in despawned


GrowthRan ==
    /\ "snake_growth" \notin done
    /\ "snake_growth" \in done'

\* C11: in one frame the growth manager appends at most one segment: with a
\* growth signal pending it consumes one and appends exactly one segment at
\* LastTailPosition behind the unchanged chain; with none it changes nothing.
C11_OneGrowthPerFrame ==
    [][GrowthRan =>
         IF growthA + growthB > 0
         THEN /\ lastTail # None
              /\ segments' = segments \o <<[pos |-> lastTail, head |-> NoHead]>>
              /\ growthA' + growthB' = growthA + growthB - 1
         ELSE /\ segments' = segments
              /\ growthA' + growthB' = 0]_vars

\* two signals were pending: one segment was appended at LastTailPosition
\* and one signal is left for a later frame
C11_Witness ==
    /\ "snake_growth" \in done
    /\ growthA + growthB = 1
    /\ Len(segments) = live + 1
    /\ segments[Len(segments)].pos = lastTail

GameOverRan ==
    /\ "game_over" \notin done
    /\ "game_over" \in done'

\* C12, as far as the program reaches it: the reset manager resets only when
\* a game-over signal is pending; the signal was sent by the tick of that
\* frame, and none is left to cause another reset in a later frame.  No tick
\* of the program sends more than one signal.
C12_OneResetPerGameOver ==
    [][GameOverRan =>
         IF gameOverA + gameOverB > 0
         THEN /\ raised = gameOverA + gameOverB
              /\ old' = old \o LiveSegments
              /\ segments' = SpawnSnake
              /\ gameOverA' + gameOverB' = 0
         ELSE UNCHANGED <<segments, live, old, foods, despawned>>]_vars

KeyPriority == <<"Left", "Down", "Up", "Right">>

FirstHeld(held) ==
    KeyPriority[CHOOSE k \in 1..4 :
                    /\ KeyPriority[k] \in held
                    /\ \A j \in 1..(k - 1) : KeyPriority[j] \notin held]

\* the heading the claim expects from heading c with the keys held
HeadingAfterKeys(c, held) ==
    IF held = {} THEN c
    ELSE IF FirstHeld(held) = Opposite(c) THEN c
    ELSE FirstHeld(held)

\* C13: with several keys held the request is the first held key in the
\* order Left, Down, Up, Right, and only that one is tested against the
\* reversal rule; with no key held the heading stays as it is.
C13_KeyPriority ==
    /\ \A c \in Direction : \A held \in SUBSET KeyCode :
          /\ held # {} => DirectionInput(held, c) = FirstHeld(held)
          /\ SetInput(c, DirectionInput(held, c)) = HeadingAfterKeys(c, held)
    /\ SetInput("Right", DirectionInput({"Left", "Up"}, "Right")) = "Right"
    /\ [][InputRan =>
            \E c \in {TheHead.head} :
            \E held \in {{}, {request'} \cap KeyCode} :
                /\ request' = DirectionInput(held, c)
                /\ TheHead'.head = HeadingAfterKeys(c, held)]_vars

\* the snake heads Right after a tick, Left is the first held key and the
\* heading stays Right
C13_Witness ==
    /\ "snake_movement_input" \in done
    /\ lastMoveDir = "Right"
    /\ request = "Left"
    /\ TheHead.head = "Right"

InGrid(p) ==
    /\ 0 <= p[1] /\ p[1] < ARENA_WIDTH
    /\ 0 <= p[2] /\ p[2] < ARENA_HEIGHT

\* draws at the ends of the range of random::<f32>() and next to the
\* thresholds between two cells
EdgeDraws ==
    {0, 1, F32One - 1, F32One - 2, F32One \div 2, F32One \div 2 - 1,
     5033164, 5033165, 15099494, 15099495}

FoodSpawned == fed' = fed + 1

\* C14: every food position is inside the grid, whatever the draw; a
\* food-spawn tick adds exactly one food and neither removes nor moves a food
\* that exists, so foods may share a cell or lie on the snake.
C14_FoodInGrid ==
    /\ FoodCells = (0..(ARENA_WIDTH - 1)) \X (0..(ARENA_HEIGHT - 1))
    /\ {FoodCell(DrawOrder[i]) : i \in 1..Len(DrawOrder)} = FoodCells
    /\ \A k \in EdgeDraws :
          /\ FoodCoord(k, ARENA_WIDTH) \in 0..(ARENA_WIDTH - 1)
          /\ FoodCoord(k, ARENA_HEIGHT) \in 0..(ARENA_HEIGHT - 1)
    /\ [](/\ \A p \in DOMAIN foods : InGrid(p)
          /\ \A k \in 1..Len(spawnedFood) : InGrid(spawnedFood[k]))
    /\ [][FoodSpawned =>
            /\ Len(spawnedFood') = Len(spawnedFood) + 1
            /\ SubSeq(spawnedFood', 1, Len(spawnedFood)) = spawnedFood
            /\ foods' = foods
            /\ despawned' = despawned]_vars

\* two foods share a cell that the snake occupies too
C14_Witness ==
    \E p \in DOMAIN foods :
        /\ foods[p] >= 2
        /\ Contains(Positions(segments), p)

\* the chain a tick leaves, from the chain positions ps and the heading d
MovedChain(ps, d) ==
    [k \in 1..Len(ps) |-> IF k = 1 THEN Step(ps[1], d) ELSE ps[k - 1]]

CollisionOutcome(ps, d) ==
    OutOfBounds(Step(ps[1], d)) \/ Contains(ps, Step(ps[1], d))

\* C15: the chain, the LastTailPosition and the game-over outcome of a
\* movement tick are a function of the chain positions and the heading
\* before it alone, whatever the foods, the timers and the history are.
C15_TickDeterminedByChain ==
    [][Ticked =>
         LET ps == Positions(segments)
             d == TheHead.head
         IN  /\ Positions(segments') = MovedChain(ps, d)
             /\ lastTail' = ps[Len(ps)]
             /\ (raised' > 0) = CollisionOutcome(ps, d)
             /\ gameOverB' - gameOverB = raised']_vars

\* a tick has hit the wall while a food is on the grid, a growth signal is
\* pending and an earlier tick has left its tail position
C15_Witness ==
    /\ "snake_movement" \in done
    /\ "game_over" \notin done
    /\ raised > 0
    /\ foods # EmptyBag
    /\ growthA + growthB > 0
    /\ ticks >= 2

GrowthConsumed == GrowthRan /\ growthA + growthB > 0

\* C16: whenever the growth manager consumes a signal, LastTailPosition is
\* set and holds the cell the tail of the current snake left in a movement
\* tick of the current round, never a value from before the last reset.
C16_TailPositionOfThisRound ==
    [][GrowthConsumed =>
         /\ lastTail # None
         /\ lastMoveDir # None]_vars

\* C17: whatever the order of snake_eating and snake_growth relative to
\* snake_movement_input, snake_movement and game_over, a frame in which the
\* reset ran ends with exactly the canonical head and tail segment.
C17_ResetFrameEndsCanonical ==
    (done = Systems /\ old # <<>>) => segments = SpawnSnake

\* C18: a segment of the snake is outside the grid only if it is the head,
\* between a game-over tick and the reset of the same frame, so at every
\* frame boundary all segments are inside; and the cell the growth manager
\* appends at is always inside the grid.
C18_SegmentsInGrid ==
    /\ \A k \in 1..Len(segments) :
          ~InGrid(segments[k].pos) =>
              /\ k = 1
              /\ raised > 0
              /\ "snake_movement" \in done
              /\ "game_over" \notin done
    /\ done = Systems => \A k \in 1..Len(segments) : InGrid(segments[k].pos)
    /\ lastTail # None => InGrid(lastTail)

\* a grown snake whose head has left the grid, before the reset of the frame
C18_Witness ==
    /\ Len(segments) >= 3
    /\ ~InGrid(segments[1].pos)
    /\ InGrid(segments[Len(segments)].pos)
    /\ "game_over" \notin done

MovementRan ==
    /\ "snake_movement" \notin done
    /\ "snake_movement" \in done'

\* C19: when snake_movement_input or snake_movement runs without exactly one
\* head it aborts with no effect: no position, heading or LastTailPosition
\* changes and no game-over is raised; and whenever one of the two runs the
\* head exists, so that branch is never taken.
C19_HeadPresent ==
    [][(InputRan \/ MovementRan) =>
         /\ Cardinality(HeadIndices) # 1 =>
                UNCHANGED <<segments, old, lastTail, gameOverA, gameOverB,
                            panicked>>
         /\ Cardinality(HeadIndices) = 1]_vars

\* the input system has run on the head of a snake spawned by a reset
C19_Witness ==
    /\ ticks >= 1
    /\ lastMoveDir = None
    /\ old = <<>>
    /\ request # None
    /\ Cardinality(HeadIndices) = 1

\* C20: with the movement tick treated fairly and no key ever held, the
\* round that starts in the canonical state ends: within RoundTicks movement
\* ticks a game-over is raised and the reset manager respawns the snake.
C20_RoundEnds == <>(old # <<>> /\ segments = SpawnSnake)

====
